---------------------------- MODULE Spec2Model ----------------------------
(***************************************************************************)
(* The UPS monitor's poll loop, in its two variants:                       *)
(*   "MQTT"  src/UPS_Monitor_PC_MQTT.py  main()                            *)
(*   "PC"    src/UPS_monitor_PC.py       module-level poll loop            *)
(* One action per step of a cycle.  Quantities the code keeps as floats    *)
(* are kept exact as scaled integers: volts in mV, SOC as a numerator over *)
(* SocDen (and a chunk divisor), temperatures in 1/100 degree C.           *)
(***************************************************************************)
EXTENDS Integers, Sequences, FiniteSets, TLC

(* ------------------------------ bounds -------------------------------- *)
\* cycles with a successful field-bus connect explored in the free environment
MaxCycles == 2
\* failed field-bus connects explored in the free environment
MaxConnFails == 3
\* cycles of the steady environment (every read answers, no failure)
MaxSteadyCycles == 700
\* time.time() when the process starts
StartTime == 1000

(* ------------------------- program constants -------------------------- *)
LOG_INTERVAL == 5
DequeMaxLen == 600
GraphWindow == 600
GraphCols == 50
FFFF == 65535
\* 20.4 V and 27.5 V, the calibration points of the SOC estimate, in mV
VMin == 20400
VMax == 27500
\* 273.15 K in 1/100 K
KelvinOffset == 27315
\* sleeps of the MQTT variant: connect failure, battery mode, grid mode
MqttConnFailSleep == 5
FastSleep == 5
SlowSleep == 10
\* sleeps of the PC variant: connect failure and "lost connection" health check
PcConnFailSleep == 3
PcHealthSleep == 3

\* an optional value is a tuple: None is << >>, a value v is << v >>
None == << >>
Some(v) == << v >>

\* a SOC value << num, den >> is num / (den * SocDen) percent
SocDen == VMax - VMin

Max(a, b) == IF a >= b THEN a ELSE b
Min(a, b) == IF a <= b THEN a ELSE b

(* ---------------------------- the catalog ----------------------------- *)
\* scale 0 and unit "" stand for None
registers ==
  << [label |-> "Status Functions",                 word_count |-> 4, unit |-> "",     scale |-> 0],
     [label |-> "Status Interface",                 word_count |-> 2, unit |-> "",     scale |-> 0],
     [label |-> "Output Voltage",                   word_count |-> 1, unit |-> "V",      scale |-> 1000],
     [label |-> "Output Current",                   word_count |-> 1, unit |-> "mA",     scale |-> 1],
     [label |-> "Battery Voltage",                  word_count |-> 1, unit |-> "V",      scale |-> 1000],
     [label |-> "Battery Current",                  word_count |-> 1, unit |-> "mA",     scale |-> 1],
     [label |-> "Battery Temperature",              word_count |-> 1, unit |-> "K",      scale |-> 1],
     [label |-> "Device Temperature",               word_count |-> 1, unit |-> "K",      scale |-> 1],
     [label |-> "Remaining Time PC Shutdown (t31)", word_count |-> 1, unit |-> "min",    scale |-> 60],
     [label |-> "Battery Mode Time",                word_count |-> 2, unit |-> "min",    scale |-> 60],
     [label |-> "User Battery Mode Time",           word_count |-> 2, unit |-> "min",    scale |-> 60],
     [label |-> "Battery Capacity",                 word_count |-> 1, unit |-> "100mAh", scale |-> 10],
     [label |-> "Device Name",                      word_count |-> 2, unit |-> "ASCII",  scale |-> 0] >>

NumRegs == Len(registers)
Labels == {registers[i].label : i \in 1..NumRegs}

VARIABLES
  variant,                \* "MQTT" or "PC": which script runs
  env,                    \* "free": any outcome; "grid"/"battery": steady device;
                          \* "stop": steady device, and the user may press Ctrl-C
  pc,                     \* position in the script
  cycle,                  \* cycles whose field-bus connect succeeded
  now,                    \* time.time(), seconds
  client_open,            \* the current client's socket is open
  leaked,                 \* clients rebound while their socket was open
  mqtt_started,           \* mqtt_client.connect() succeeded, loop_start() ran
  mqtt_attempts,          \* calls of mqtt_client.connect()
  soc_history,            \* the deque of (time, soc) samples
  last_log_time,
  battery_mode, battery_present, temp_sensor_connected,
  reg_i,                  \* index of the catalog loop
  register_values,        \* MQTT: label -> None | words
  battery_temp_raw, battery_capacity,          \* PC, first loop
  battery_voltage, soc,
  device_temp_c, battery_temp_c, battery_current, output_current,  \* PC, second loop
  mqtt_published,
  unbound,                \* PC: module-level names no statement has bound yet
  n_csv,                  \* data rows appended to the CSV file
  n_conn_err,             \* "connection failed" entries in the error log
  \* ---- history variables: what happened, not read by the program
  n_conn_fail,            \* field-bus connects that failed
  trace,                  \* steps of the most recent cycle, in order
  reads,                  \* catalog labels whose read was issued this cycle
  errs,                   \* catalog labels whose read returned an error this cycle
  io_raised,              \* a field-bus read raised an exception this cycle
  exc,                    \* the exception being handled ("none": none)
  raw_voltage,            \* battery-voltage word the SOC step saw this cycle
  pub_outcome,            \* what client.publish did this cycle
  csv_row,                \* the row this cycle appended (<< >>: none)
  inserted,               \* every sample ever appended: (time, soc, raw voltage word)
  config,                 \* what config.ini lacks of what the script reads ("none": nothing)
  exit_status,            \* None while the process runs, Some(status) once it has exited
  id_file,                \* ups_id.txt: None when absent, Some(content) otherwise
  topics,                 \* the identifiers of the topics publish_mqtt was called with
  n_id_gen,               \* identifiers generated by uuid.uuid4()
  slept,                  \* seconds slept at the end of the most recent cycle
  graph_used,             \* None, or Some(the SOC samples this cycle's graph drew)
  graph_kept,             \* the graph left the history as it was handed to it
  \* ---- one call of a pure function: its arguments and its result
  d_reg, d_words,         \* a catalog entry and the words read for it
  d_out,                  \* None, or Some(what the decoder makes of them)
  h_file,                 \* the CSV file before ensure_csv_header: None, or Some(lines)
  h_out                   \* None, or Some(the file after the call)

vars == << variant, env, pc, cycle, now, client_open, leaked, mqtt_started,
           mqtt_attempts, soc_history, last_log_time, battery_mode,
           battery_present, temp_sensor_connected, reg_i, register_values,
           battery_temp_raw, battery_capacity, battery_voltage, soc,
           device_temp_c, battery_temp_c, battery_current, output_current,
           mqtt_published, unbound, csv_row, n_csv, n_conn_err, n_conn_fail,
           trace, reads, errs, io_raised, exc, raw_voltage, pub_outcome,
           inserted, config, exit_status, id_file, topics, n_id_gen, slept,
           graph_used, graph_kept, d_reg, d_words, d_out, h_file, h_out >>

fnV     == << d_reg, d_words, d_out, h_file, h_out >>
envV    == << variant, env, config, fnV >>
idV     == << id_file, topics, n_id_gen >>
procV   == << envV, exit_status, idV >>
ctlV    == << procV, unbound >>
connV   == << client_open, leaked >>
mqV     == << mqtt_started, mqtt_attempts >>
histV   == << soc_history, inserted >>
flagV   == << battery_mode, battery_present, temp_sensor_connected >>
loopV   == << reg_i, register_values, battery_temp_raw, battery_capacity >>
socV    == << battery_voltage, soc >>
secondV == << device_temp_c, battery_temp_c, battery_current, output_current >>
sinkV   == << mqtt_published, last_log_time, n_csv >>
logV    == << n_conn_err, n_conn_fail, slept >>
\* the history variables of one cycle
graphV  == << graph_used, graph_kept >>
cycV    == << reads, errs, io_raised, exc, raw_voltage, pub_outcome, csv_row, graphV >>

(* --------------------------- pure functions --------------------------- *)
\* (regs[k] & mask) != 0 for a one-bit mask
BitSet(word, mask) == (word \div mask) % 2 = 1

\* the estimate without its clamp
SocCalc_NoClamp(mv) == 100 * (mv - VMin)

\* soc = 100 * (battery_voltage - 20.4) / (27.5 - 20.4); soc = max(0, min(100, soc))
\* as a numerator over SocDen, for the voltage in mV
SocCalc(mv) == Max(0, Min(100 * SocDen, 100 * (mv - VMin)))

\* round(x, 2) of num / (den * SocDen), in 1/100 percent (half up)
Round2(v) == (2 * 100 * v[1] + v[2] * SocDen) \div (2 * v[2] * SocDen)

\* deque(maxlen=600).appendleft(sample): the new sample goes in front and a
\* full deque drops its last element
DequeAppend_Left(h, sample) ==
  IF Len(h) >= DequeMaxLen
    THEN << sample >> \o SubSeq(h, 1, Len(h) - 1)
    ELSE << sample >> \o h

\* deque(maxlen=600).append(sample)
DequeAppend(h, sample) ==
  IF Len(h) >= DequeMaxLen THEN Append(Tail(h), sample) ELSE Append(h, sample)

\* [s for t, s in soc_history if t >= window_start]
Relevant(h, t) == SelectSeq(h, LAMBDA x : x[1] >= t - GraphWindow)

RECURSIVE SumSoc(_, _, _)
SumSoc(vals, from, to) ==
  IF from > to THEN 0 ELSE vals[from][2] + SumSoc(vals, from + 1, to)

\* the value the name soc is left bound to by the graph's "for soc in avg_socs":
\* the last of the (at most 50) chunk averages sum(chunk) / chunk_size
GraphLastAvg(vals) ==
  LET n      == Len(vals)
      cs     == Max(1, n \div GraphCols)
      chunks == Min(GraphCols, (n + cs - 1) \div cs)
  IN  << SumSoc(vals, (chunks - 1) * cs + 1, Min(chunks * cs, n)), cs >>

\* a graph that consumes the history it draws
print_soc_graph_Draining(h, t) ==
  [history |-> << >>, used |-> Relevant(h, t)]

\* print_soc_graph(soc_history) at time t (the inline graph of the PC variant
\* does the same): the history after the call and the samples drawn
print_soc_graph(h, t) ==
  [history |-> h, used |-> Relevant(h, t)]

\* publish_mqtt without its try/except: an exception of client.publish leaves it
publish_mqtt_uncaught(outcome) ==
  [published |-> (outcome = "ok"), propagates |-> (outcome = "raise")]

\* publish_mqtt: what the call returns, and whether an exception leaves it
publish_mqtt(outcome) ==
  [published |-> (outcome = "ok"), propagates |-> FALSE]

(* ------------------------- the register decoder ----------------------- *)
\* all(v == 0xFFFF for v in values)
AllFFFF(values) == \A i \in DOMAIN values : values[i] = FFFF

\* A decoded register. raw is the integer in base 65536, << hi, lo >> standing
\* for (hi << 16) + lo; the value is raw / den, less 273.15 when celsius.
Unavailable == [kind |-> "unavailable", raw |-> << 0, 0 >>, den |-> 1, celsius |-> FALSE]
Text(hi, lo) == [kind |-> "text", raw |-> << hi, lo >>, den |-> 1, celsius |-> FALSE]
\* value = raw / scale if scale else raw
Value(hi, lo, scale, celsius) ==
  [kind |-> "value", raw |-> << hi, lo >>,
   den |-> IF scale # 0 THEN scale ELSE 1, celsius |-> celsius]

\* the two-word raw taken from the last two words instead of the first two
format_register_value_LastWords(r, values) ==
  IF AllFFFF(values) THEN Unavailable
  ELSE IF r.word_count = 1
       THEN IF r.unit = "ASCII" THEN Text(0, values[1])
            ELSE Value(0, values[1], r.scale, r.unit = "K")
       ELSE IF r.unit = "ASCII" THEN Text(values[Len(values) - 1], values[Len(values)])
            ELSE Value(values[Len(values) - 1], values[Len(values)], r.scale, FALSE)

\* format_register_value(label, values, word_count, unit, scale), MQTT variant
format_register_value(r, values) ==
  IF AllFFFF(values) THEN Unavailable
  ELSE IF r.word_count = 1
       THEN IF values[1] = FFFF THEN Unavailable
            ELSE IF r.unit = "K" THEN Value(0, values[1], r.scale, TRUE)
            ELSE IF r.unit = "ASCII" THEN Text(0, values[1])
            ELSE Value(0, values[1], r.scale, FALSE)
       ELSE IF r.unit = "ASCII" THEN Text(values[1], values[2])
            ELSE Value(values[1], values[2], r.scale, FALSE)

\* the decoding inside the first register loop of the PC variant
P_Decode(r, values) ==
  IF r.label = "Device Name"
  THEN IF AllFFFF(values) THEN Unavailable ELSE Text(values[1], values[2])
  ELSE IF r.word_count = 1
       THEN IF values[1] = FFFF THEN Unavailable
            ELSE Value(0, values[1], r.scale, r.unit = "K")
       ELSE Value(values[1], values[2], r.scale, FALSE)

(* ----------------------------- the CSV header -------------------------- *)
\* a line of the file: its text and whether a line terminator follows it
Line(text) == [text |-> text, eol |-> TRUE]
\* first_line.strip()
Strip(line) == line.text

\* ','.join(header) of each variant (the degree sign of the two temperature
\* columns is left out)
M_Header ==
  "Timestamp,Battery Voltage (V),Output Current (mA),Battery Temp (C),Device Temp (C),Battery Current (mA),SOC (%),Battery Mode,Battery Present,Temp Sensor Connected,MQTT Published"
P_Header ==
  "Timestamp,Battery Voltage (V),Output Current (mA),Battery Temp (C),Device Temp (C),Battery Current (mA),SOC (%)"

\* the header list of each variant, column by column
M_Columns ==
  << "Timestamp", "Battery Voltage (V)", "Output Current (mA)", "Battery Temp (C)",
     "Device Temp (C)", "Battery Current (mA)", "SOC (%)", "Battery Mode",
     "Battery Present", "Temp Sensor Connected", "MQTT Published" >>
P_Columns ==
  << "Timestamp", "Battery Voltage (V)", "Output Current (mA)", "Battery Temp (C)",
     "Device Temp (C)", "Battery Current (mA)", "SOC (%)" >>

\* ensure_csv_header of the MQTT variant: the file is created when absent
M_ensure_csv_header(f) ==
  IF f = None THEN Some(<< Line(M_Header) >>) ELSE f

\* ensure_csv_header of the PC variant: created when absent; when the first
\* line is not the header, the header and then the lines after the first
P_ensure_csv_header(f) ==
  IF f = None
  THEN Some(<< Line(P_Header) >>)
  ELSE LET lines == f[1] IN
         IF lines = << >>
         THEN Some(<< Line(P_Header) >>)
         ELSE IF Strip(Head(lines)) # P_Header
              THEN Some(<< Line(P_Header) >> \o Tail(lines))
              ELSE f

(* ------------------- the device and the broker (inputs) --------------- *)
Error == [ok |-> FALSE, words |-> << >>]
Ok(words) == [ok |-> TRUE, words |-> words]

\* voltages the steady device reports: the calibration points and their
\* neighbours first, one per cycle, then a sweep from below 20.4 V to above 27.5 V
RawCycle == << 24000, 15000, 20399, 20400, 20401, 27499, 27500, 27501, 30000, 0, 65534 >>
SteadyRaw ==
  IF cycle \in DOMAIN RawCycle THEN RawCycle[cycle] ELSE 19000 + 13 * cycle

DefaultWords(wc) == [i \in 1..wc |-> 1]

\* the word sequences the device may answer to a read of a catalog register
Answers(r) ==
  IF env = "free"
  THEN CASE r.label = "Battery Voltage"     -> { << FFFF >>, << 24000 >> }
         [] r.label = "Battery Capacity"    -> { << 72 >> }
         [] r.label = "Battery Temperature" -> { << 298 >> }
         [] r.label = "Output Current" /\ variant = "MQTT" -> { << FFFF >>, << 1 >> }
         [] OTHER                           -> { DefaultWords(r.word_count) }
  ELSE CASE r.label = "Battery Voltage"     -> { << SteadyRaw >> }
         [] r.label = "Battery Capacity"    -> { << 72 >> }
         [] r.label = "Battery Temperature" -> { << 298 >> }
         [] OTHER                           -> { DefaultWords(r.word_count) }

\* answers to the read of 0x2000: words 0 and 1 carry the three flags
StatusAnswers ==
  CASE env = "free"    -> { << 0, 0, 0, 0 >>, << 4, 4352, 0, 0 >> }
    [] env = "grid"    -> { << 0, 4352, 0, 0 >> }
    [] env = "battery" -> { << 4, 4352, 0, 0 >> }
    [] env = "stop"    -> { << 0, 4352, 0, 0 >>, << 4, 4352, 0, 0 >> }

\* the catalog registers whose read may fail (an error result, or an exception)
\* in the free environment: the one a later step of the variant's cycle depends
\* on (MQTT: the SOC reads register_values["Battery Voltage"]; PC: the SOC
\* print formats battery_capacity)
Failable ==
  IF variant = "MQTT" THEN { "Battery Voltage" } ELSE { "Battery Capacity" }

BatteryVoltageReg == registers[5]

\* a read returns words, or (free environment only) an error result
ReadResults(r) ==
  { Ok(w) : w \in Answers(r) }
    \cup (IF env = "free" /\ r.label \in Failable THEN { Error } ELSE {})
\* the PC variant's own read of 0x200A before the SOC
SocReadResults ==
  { Ok(w) : w \in Answers(BatteryVoltageReg) } \cup (IF env = "free" THEN { Error } ELSE {})
StatusResults  == { Ok(w) : w \in StatusAnswers } \cup (IF env = "free" THEN { Error } ELSE {})

\* client.publish: rc 0 only on a started client; a wrong rc or an exception otherwise
PublishOutcomes ==
  IF env = "free"
  THEN (IF mqtt_started THEN { "ok" } ELSE {}) \cup { "fail", "raise" }
  ELSE { "ok" }


(* ------------------------------- Init --------------------------------- *)
\* register_values = {}: .get(label) is None for every label
NoValues == [l \in Labels |-> None]

InitCommon ==
  /\ variant \in { "MQTT", "PC" }
  /\ pc = "config"
  /\ cycle = 0
  /\ now = StartTime
  /\ client_open = FALSE
  /\ leaked = 0
  /\ mqtt_started = FALSE
  /\ mqtt_attempts = 0
  /\ soc_history = << >>
  \* MQTT: last_log_time = 0; PC: last_log_time = time.time()
  /\ last_log_time = IF variant = "MQTT" THEN 0 ELSE StartTime
  /\ battery_mode = FALSE
  /\ battery_present = FALSE
  /\ temp_sensor_connected = FALSE
  /\ reg_i = 1
  /\ register_values = NoValues
  /\ battery_temp_raw = None
  /\ battery_capacity = None
  /\ battery_voltage = None
  /\ soc = None
  /\ device_temp_c = None
  /\ battery_temp_c = None
  /\ battery_current = None
  /\ output_current = None
  /\ mqtt_published = FALSE
  /\ unbound = IF variant = "PC"
               THEN { "battery_mode", "battery_voltage", "soc" }
               ELSE {}
  /\ csv_row = << >>
  /\ n_csv = 0
  /\ n_conn_err = 0
  /\ n_conn_fail = 0
  /\ trace = << >>
  /\ reads = {}
  /\ errs = {}
  /\ io_raised = FALSE
  /\ exc = "none"
  /\ raw_voltage = None
  /\ pub_outcome = "none"
  /\ inserted = << >>
  /\ exit_status = None
  /\ topics = {}
  /\ n_id_gen = 0
  /\ slept = 0
  /\ graph_used = None
  /\ graph_kept = TRUE

\* no pure function is called on its own
NoCall ==
  /\ d_reg = 1
  /\ d_words = << >>
  /\ d_out = None
  /\ h_file = None
  /\ h_out = None

\* the options each script reads from config.ini
Required ==
  IF variant = "MQTT"
  THEN { "MODBUS", "MODBUS.port", "MQTT", "MQTT.base_topic" }
  ELSE { "MODBUS", "MODBUS.port" }

\* ups_id.txt as an earlier run or the user left it: with a trailing newline
IdOnDisk == [name |-> "site/1", n |-> 0, pad |-> TRUE, unsafe |-> TRUE]

Init ==
  /\ env = "free"
  /\ InitCommon
  /\ NoCall
  /\ config \in { "none" } \cup Required
  /\ id_file \in IF variant = "MQTT" THEN { None, Some(IdOnDisk) } ELSE { None }

\* the history variables of a cycle start empty, and are emptied when it ends
NoCycle ==
  /\ reads' = {}
  /\ errs' = {}
  /\ io_raised' = FALSE
  /\ exc' = "none"
  /\ raw_voltage' = None
  /\ pub_outcome' = "none"
  /\ csv_row' = << >>
  /\ graph_used' = None
  /\ graph_kept' = TRUE
  /\ trace' = << >>

NewCycle ==
  /\ cycle' = cycle + 1
  /\ reads' = {}
  /\ errs' = {}
  /\ io_raised' = FALSE
  /\ exc' = "none"
  /\ raw_voltage' = None
  /\ pub_outcome' = "none"
  /\ csv_row' = << >>
  /\ graph_used' = None
  /\ graph_kept' = TRUE

CanStartCycle ==
  cycle < (IF env \in { "free", "stop" } THEN MaxCycles ELSE MaxSteadyCycles)

CanFailConnect == env = "free" /\ n_conn_fail < MaxConnFails

\* an exception leaves the try body (and the catalog loop, if it was in one)
Raise(kind) ==
  /\ pc' = "except"
  /\ exc' = kind


\* a configuration load that goes on with defaults when a section or key is missing
M_LoadConfig_Defaults ==
  /\ variant = "MQTT" /\ pc = "config"
  /\ pc' = "startup"
  /\ UNCHANGED << envV, exit_status, idV, unbound, cycle, now, connV, mqV, histV,
                  flagV, loopV, socV, secondV, sinkV, logV, cycV, trace >>

(* ------------------- MQTT variant: UPS_Monitor_PC_MQTT.py ------------- *)
\* config.get / config.getint at the top of main(): a missing section or option
\* raises out of main() and the interpreter exits with status 1
M_LoadConfig ==
  /\ variant = "MQTT" /\ pc = "config"
  /\ IF config = "none"
     THEN pc' = "startup" /\ UNCHANGED exit_status
     ELSE pc' = "exited" /\ exit_status' = Some(1)
  /\ UNCHANGED << envV, idV, unbound, cycle, now, connV, mqV, histV, flagV, loopV,
                  socV, secondV, sinkV, logV, cycV, trace >>

\* mqtt_client.connect() at startup: the only connect the script makes
M_MqttConnect(ok) ==
  /\ variant = "MQTT" /\ pc = "startup"
  /\ mqtt_attempts' = mqtt_attempts + 1
  /\ mqtt_started' = ok
  /\ pc' = "loop"
  /\ UNCHANGED << ctlV, cycle, now, connV, histV, flagV, loopV, socV, secondV,
                  sinkV, logV, cycV, trace >>

\* a failed connect that goes on into the cycle instead of "continue"
M_ConnectFail_NoContinue ==
  /\ variant = "MQTT" /\ pc = "loop" /\ CanFailConnect
  /\ leaked' = leaked + (IF client_open THEN 1 ELSE 0)
  /\ client_open' = FALSE
  /\ n_conn_err' = n_conn_err + 1
  /\ n_conn_fail' = n_conn_fail + 1
  /\ now' = now + MqttConnFailSleep
  /\ slept' = MqttConnFailSleep
  /\ trace' = << "connect_failed", "log_conn_err", "sleep" >>
  /\ pc' = "name"
  /\ UNCHANGED << ctlV, cycle, mqV, histV, flagV, loopV, socV, secondV, sinkV, cycV >>

\* client = ModbusTcpClient(...); client.connect() is False: log, sleep(5), continue
M_ConnectFail ==
  /\ variant = "MQTT" /\ pc = "loop" /\ CanFailConnect
  /\ leaked' = leaked + (IF client_open THEN 1 ELSE 0)
  /\ client_open' = FALSE
  /\ n_conn_err' = n_conn_err + 1
  /\ n_conn_fail' = n_conn_fail + 1
  /\ now' = now + MqttConnFailSleep
  /\ slept' = MqttConnFailSleep
  /\ trace' = << "connect_failed", "log_conn_err", "sleep" >>
  /\ pc' = "loop"
  /\ UNCHANGED << ctlV, cycle, mqV, histV, flagV, loopV, socV, secondV, sinkV, cycV >>

\* client.connect() is True; device_name, battery_mode, mqtt_published are reset
M_Connect ==
  /\ variant = "MQTT" /\ pc = "loop" /\ CanStartCycle
  /\ leaked' = leaked + (IF client_open THEN 1 ELSE 0)
  /\ client_open' = TRUE
  /\ battery_mode' = FALSE
  /\ mqtt_published' = FALSE
  /\ NewCycle
  /\ trace' = << "connect" >>
  /\ pc' = "name"
  /\ UNCHANGED << ctlV, now, mqV, histV, battery_present, temp_sensor_connected,
                  loopV, socV, secondV, last_log_time, n_csv, logV >>

\* a read_holding_registers call raises: control leaves the try body
M_ReadRaises ==
  /\ variant = "MQTT" /\ env = "free"
  /\ \/ pc \in { "name", "status" }
     \/ pc = "regs" /\ registers[reg_i].label \in Failable
  /\ io_raised' = TRUE
  /\ Raise("io")
  /\ reg_i' = 1
  /\ UNCHANGED << ctlV, cycle, now, connV, mqV, histV, flagV, register_values,
                  battery_temp_raw, battery_capacity, socV, secondV,
                  sinkV, logV, trace, reads, errs, raw_voltage, pub_outcome, csv_row,
                  graphV >>

\* the read of 0x0012: the name or "UnknownDevice", used for display only
M_ReadName ==
  /\ variant = "MQTT" /\ pc = "name"
  /\ trace' = Append(trace, "name")
  /\ pc' = "status"
  /\ UNCHANGED << ctlV, cycle, now, connV, mqV, histV, flagV, loopV, socV, secondV,
                  sinkV, logV, cycV >>

\* the read of 0x2000 and the three flags; register_values = {} opens the catalog loop
M_ReadStatus(res) ==
  /\ variant = "MQTT" /\ pc = "status"
  /\ IF res.ok
     THEN /\ battery_mode' = BitSet(res.words[1], 4)
          /\ battery_present' = BitSet(res.words[2], 256)
          /\ temp_sensor_connected' = BitSet(res.words[2], 4096)
     ELSE /\ battery_present' = FALSE
          /\ temp_sensor_connected' = FALSE
          /\ UNCHANGED battery_mode
  \* logging.warning("Status registers unavailable")
  /\ trace' = IF res.ok THEN Append(trace, "status")
               ELSE trace \o << "status_unavailable", "log_status_unavailable" >>
  /\ register_values' = NoValues
  /\ reg_i' = 1
  /\ pc' = "regs"
  /\ UNCHANGED << ctlV, cycle, now, connV, mqV, histV, battery_temp_raw,
                  battery_capacity, socV, secondV, sinkV, logV, cycV >>

\* one turn of "for addr, (...) in registers.items()"
M_ReadRegister(res) ==
  /\ variant = "MQTT" /\ pc = "regs"
  /\ LET r == registers[reg_i] IN
       /\ reads' = reads \cup { r.label }
       /\ errs' = IF res.ok THEN errs ELSE errs \cup { r.label }
       /\ register_values' = [register_values EXCEPT ![r.label] = IF res.ok THEN res.words ELSE None]
  /\ IF reg_i < NumRegs
     THEN reg_i' = reg_i + 1 /\ pc' = "regs" /\ UNCHANGED trace
     ELSE reg_i' = 1 /\ pc' = "soc" /\ trace' = Append(trace, "regs")
  /\ UNCHANGED << ctlV, cycle, now, connV, mqV, histV, flagV, battery_temp_raw,
                  battery_capacity, socV, secondV, sinkV, logV, io_raised, exc,
                  raw_voltage, pub_outcome, csv_row,
                  graphV >>

\* the SOC from register_values["Battery Voltage"], the history append, the graph
M_Soc ==
  /\ variant = "MQTT" /\ pc = "soc"
  /\ LET rv == register_values["Battery Voltage"] IN
       IF rv # None /\ rv[1] # FFFF
       THEN LET h == DequeAppend(soc_history, << now, SocCalc(rv[1]) >>)
                g == print_soc_graph(h, now)
            IN
              /\ battery_voltage' = Some(rv[1])
              /\ soc' = << SocCalc(rv[1]), 1 >>
              /\ soc_history' = g.history
              /\ inserted' = Append(inserted, << now, SocCalc(rv[1]), rv[1] >>)
              /\ raw_voltage' = Some(rv[1])
              /\ graph_used' = Some(g.used)
              /\ graph_kept' = (g.history = h)
       ELSE LET g == print_soc_graph(soc_history, now) IN
              /\ battery_voltage' = None
              /\ soc' = None
              /\ raw_voltage' = IF rv = None THEN None ELSE Some(rv[1])
              /\ soc_history' = g.history
              /\ graph_used' = Some(g.used)
              /\ graph_kept' = (g.history = soc_history)
              /\ UNCHANGED inserted
  /\ trace' = Append(trace, "soc")
  /\ pc' = "publish"
  /\ UNCHANGED << ctlV, cycle, now, connV, mqV, flagV, loopV, secondV, sinkV, logV,
                  reads, errs, io_raised, exc, pub_outcome, csv_row >>

\* unique_id = f.read().strip(): the content without surrounding whitespace
StripId(c) == [c EXCEPT !.pad = FALSE]
\* unique_id.replace(' ', '_').replace('/', '_')
SafeId(id) == [id EXCEPT !.unsafe = FALSE]
\* uuid.uuid4().hex[:8]: a fresh identifier, the n-th this model has seen
NewId(n) == [name |-> "uuid", n |-> n, pad |-> FALSE, unsafe |-> FALSE]

\* an identifier generated in every cycle, whether or not the file exists
ReadOrCreateId_Always(file, n) ==
  [id |-> NewId(n + 1), file |-> Some(NewId(n + 1)), generated |-> 1]

\* the identifier of the cycle: read from ups_id.txt when it exists, otherwise
\* generated and written to it
ReadOrCreateId(file, n) ==
  IF file # None
  THEN [id |-> StripId(file[1]), file |-> file, generated |-> 0]
  ELSE [id |-> NewId(n + 1), file |-> Some(NewId(n + 1)), generated |-> 1]

\* f"{battery_voltage:.2f}" of a voltage held in millivolts: the nearest 1/100 V
\* (a tie at 5 mV follows the binary value of the float; it is rounded up here)
Fmt2(mv) == (mv + 5) \div 10

\* payload_data: None is JSON null; temperatures in 1/100 degree C
M_Payload ==
  [battery_mode    |-> battery_mode,
   battery_present |-> battery_present,
   soc_percent     |-> IF soc # None THEN Some(Round2(soc)) ELSE None,
   battery_voltage |-> IF battery_voltage # None THEN Some(Fmt2(battery_voltage[1]))
                       ELSE None,
   output_current  |->
     IF register_values["Output Current"] # None
     THEN Some(register_values["Output Current"][1]) ELSE None,
   battery_temperature |->
     IF register_values["Battery Temperature"] # None
          /\ register_values["Battery Temperature"][1] # FFFF
     THEN Some(100 * register_values["Battery Temperature"][1] - KelvinOffset)
     ELSE None]

\* the ID file and the topic, the payload, publish_mqtt(mqtt_client, mqtt_topic, payload)
M_Publish(outcome) ==
  /\ variant = "MQTT" /\ pc = "publish"
  /\ LET u == ReadOrCreateId(id_file, n_id_gen) IN
       /\ id_file' = u.file
       /\ n_id_gen' = n_id_gen + u.generated
       /\ topics' = topics \cup { SafeId(u.id) }
  /\ pub_outcome' = outcome
  /\ trace' = trace \o << "id", "publish" >>
  /\ LET p == publish_mqtt(outcome) IN
       IF p.propagates
       THEN /\ Raise("publish")
            /\ UNCHANGED mqtt_published
       ELSE /\ mqtt_published' = p.published
            /\ pc' = "csv"
            /\ UNCHANGED exc
  /\ UNCHANGED << envV, exit_status, unbound, cycle, now, connV, mqV, histV, flagV,
                  loopV, socV, secondV, last_log_time, n_csv, logV, reads, errs,
                  io_raised, raw_voltage, csv_row,
                  graphV >>

Words0(l) == register_values[l][1]

\* the row of writer.writerow([...]) in the MQTT variant; None is the empty string
M_Row ==
  << now,
     battery_voltage,
     IF register_values["Output Current"] # None THEN Some(Words0("Output Current")) ELSE None,
     IF register_values["Battery Temperature"] # None /\ Words0("Battery Temperature") # FFFF
       THEN Some(100 * Words0("Battery Temperature") - KelvinOffset) ELSE None,
     IF register_values["Device Temperature"] # None /\ Words0("Device Temperature") # FFFF
       THEN Some(100 * Words0("Device Temperature") - KelvinOffset) ELSE None,
     IF register_values["Battery Current"] # None THEN Some(Words0("Battery Current")) ELSE None,
     IF soc # None THEN Some(Round2(soc)) ELSE None,
     battery_mode, battery_present, temp_sensor_connected, mqtt_published >>

\* if time.time() - last_log_time > LOG_INTERVAL: append the row
M_Csv ==
  /\ variant = "MQTT" /\ pc = "csv"
  /\ IF now - last_log_time > LOG_INTERVAL
     THEN /\ last_log_time' = now
          /\ csv_row' = M_Row
          /\ n_csv' = n_csv + 1
          /\ trace' = trace \o << "csv", "row" >>
     ELSE /\ trace' = Append(trace, "csv")
          /\ UNCHANGED << last_log_time, csv_row, n_csv >>
  /\ pc' = "finally"
  /\ UNCHANGED << ctlV, cycle, now, connV, mqV, histV, flagV, loopV, socV, secondV,
                  mqtt_published, logV, reads, errs, io_raised, exc, raw_voltage,
                  pub_outcome,
                  graphV >>

\* except Exception: logging.exception(...)
M_Except ==
  /\ variant = "MQTT" /\ pc = "except"
  /\ trace' = Append(trace, "log_exception")
  /\ pc' = "finally"
  /\ UNCHANGED << ctlV, cycle, now, connV, mqV, histV, flagV, loopV, socV, secondV,
                  sinkV, logV, cycV >>

\* finally: client.close()
M_Finally ==
  /\ variant = "MQTT" /\ pc = "finally"
  /\ client_open' = FALSE
  /\ trace' = Append(trace, "close")
  /\ pc' = "sleep"
  /\ UNCHANGED << ctlV, cycle, now, leaked, mqV, histV, flagV, loopV, socV, secondV,
                  sinkV, logV, cycV >>

\* wait_time = 5 if battery_mode else 10; time.sleep(wait_time)
M_Sleep ==
  /\ variant = "MQTT" /\ pc = "sleep"
  /\ now' = now + (IF battery_mode THEN FastSleep ELSE SlowSleep)
  /\ slept' = IF battery_mode THEN FastSleep ELSE SlowSleep
  /\ NoCycle
  /\ pc' = "loop"
  /\ UNCHANGED << ctlV, cycle, connV, mqV, histV, flagV, loopV, socV, secondV,
                  sinkV, n_conn_err, n_conn_fail >>

M_Next ==
  \/ M_LoadConfig
  \/ \E ok \in BOOLEAN : M_MqttConnect(ok)
  \/ M_ConnectFail
  \/ M_Connect
  \/ M_ReadRaises
  \/ M_ReadName
  \/ \E res \in StatusResults : M_ReadStatus(res)
  \/ \E res \in ReadResults(registers[reg_i]) : M_ReadRegister(res)
  \/ M_Soc
  \/ \E o \in PublishOutcomes : M_Publish(o)
  \/ M_Csv
  \/ M_Except
  \/ M_Finally
  \/ M_Sleep

(* --------------------- PC variant: UPS_monitor_PC.py ------------------ *)
\* config.get / config.getint in a try: NoSectionError and NoOptionError are
\* printed, logged and followed by exit(1)
P_LoadConfig ==
  /\ variant = "PC" /\ pc = "config"
  /\ IF config = "none"
     THEN pc' = "loop" /\ UNCHANGED exit_status
     ELSE pc' = "exited" /\ exit_status' = Some(1)
  /\ UNCHANGED << envV, idV, unbound, cycle, now, connV, mqV, histV, flagV, loopV,
                  socV, secondV, sinkV, logV, cycV, trace >>

\* "client = ModbusTcpClient(...)" drops the last name of the previous client.
\* When that client's socket is still open, the interpreter closes it at once if
\* it frees the object at once, and later (or never) if the object sits in a
\* reference cycle: the outcomes of rebinding an open client
Collected == IF client_open THEN BOOLEAN ELSE { TRUE }

\* client.connect() is False: log, sleep(3), continue
P_ConnectFail(gc) ==
  /\ variant = "PC" /\ pc = "loop" /\ CanFailConnect
  /\ leaked' = leaked + (IF client_open /\ ~gc THEN 1 ELSE 0)
  /\ client_open' = FALSE
  /\ n_conn_err' = n_conn_err + 1
  /\ n_conn_fail' = n_conn_fail + 1
  /\ now' = now + PcConnFailSleep
  /\ slept' = PcConnFailSleep
  /\ trace' = << "connect_failed", "log_conn_err", "sleep" >>
  /\ pc' = "loop"
  /\ UNCHANGED << ctlV, cycle, mqV, histV, flagV, loopV, socV, secondV, sinkV, cycV >>

\* client = ModbusTcpClient(...); client.connect() is True
P_Connect(gc) ==
  /\ variant = "PC" /\ pc = "loop" /\ CanStartCycle
  /\ leaked' = leaked + (IF client_open /\ ~gc THEN 1 ELSE 0)
  /\ client_open' = TRUE
  /\ NewCycle
  /\ trace' = << "connect" >>
  /\ pc' = "status"
  /\ UNCHANGED << ctlV, now, mqV, histV, flagV, loopV, socV, secondV, sinkV, logV >>

\* the registers the second loop reads again
SecondReads == { "Device Temperature", "Battery Current", "Output Current" }
\* the one of them whose read may raise in the free environment
SecondRaises == { "Battery Current" }

\* a read_holding_registers call raises: control goes to the except clause
P_ReadRaises ==
  /\ variant = "PC" /\ env = "free"
  /\ \/ pc \in { "status", "soc" }
     \/ pc = "regs" /\ registers[reg_i].label \in Failable
     \/ pc = "regs2" /\ registers[reg_i].label \in SecondRaises
  /\ io_raised' = TRUE
  /\ Raise("io")
  /\ reg_i' = 1
  /\ UNCHANGED << ctlV, cycle, now, connV, mqV, histV, flagV, register_values,
                  battery_temp_raw, battery_capacity, socV, secondV,
                  sinkV, logV, trace, reads, errs, raw_voltage, pub_outcome, csv_row,
                  graphV >>

\* result = client.read_holding_registers(0x2000, ...); battery_mode = False; the
\* flags when the read succeeded; then battery_temp_raw = battery_capacity = None
P_ReadStatus(res) ==
  /\ variant = "PC" /\ pc = "status"
  /\ unbound' = unbound \ { "battery_mode" }
  /\ IF res.ok
     THEN /\ battery_mode' = BitSet(res.words[1], 4)
          /\ battery_present' = BitSet(res.words[2], 256)
          /\ temp_sensor_connected' = BitSet(res.words[2], 4096)
     ELSE /\ battery_mode' = FALSE
          /\ UNCHANGED << battery_present, temp_sensor_connected >>
  /\ trace' = Append(trace, IF res.ok THEN "status" ELSE "status_unavailable")
  /\ battery_temp_raw' = None
  /\ battery_capacity' = None
  /\ reg_i' = 1
  /\ pc' = "regs"
  /\ UNCHANGED << procV, cycle, now, connV, mqV, histV, register_values, socV,
                  secondV, sinkV, logV, cycV >>

\* one turn of the first "for address, (...) in registers.items()"
P_ReadRegister(res) ==
  /\ variant = "PC" /\ pc = "regs"
  /\ LET r   == registers[reg_i]
         raw == res.words[1]
         val == res.ok /\ r.label # "Device Name" /\ r.word_count = 1 /\ raw # FFFF
     IN
       /\ reads' = reads \cup { r.label }
       /\ errs' = IF res.ok THEN errs ELSE errs \cup { r.label }
       /\ battery_temp_raw' =
            IF val /\ r.unit = "K" /\ r.label = "Battery Temperature"
            THEN Some(raw) ELSE battery_temp_raw
       \* value = raw / scale, kept as the raw word (1/10 of the unit)
       /\ battery_capacity' =
            IF val /\ r.unit # "K" /\ r.label = "Battery Capacity"
            THEN Some(raw) ELSE battery_capacity
  /\ IF reg_i < NumRegs
     THEN reg_i' = reg_i + 1 /\ pc' = "regs" /\ UNCHANGED trace
     ELSE reg_i' = 1 /\ pc' = "soc" /\ trace' = Append(trace, "regs")
  /\ UNCHANGED << ctlV, cycle, now, connV, mqV, histV, flagV, register_values,
                  socV, secondV, sinkV, logV, io_raised, exc, raw_voltage, pub_outcome,
                  csv_row,
                  graphV >>

\* the second read of 0x200A, the SOC, the print with battery_capacity, the
\* history append, the graph (whose inner loop rebinds soc), and the reset of
\* the four second-loop values
P_Soc(res) ==
  /\ variant = "PC" /\ pc = "soc"
  /\ IF ~res.ok
     THEN /\ trace' = Append(trace, "soc_skipped")
          /\ pc' = "regs2"
          /\ device_temp_c' = None /\ battery_temp_c' = None
          /\ battery_current' = None /\ output_current' = None
          /\ UNCHANGED << unbound, socV, histV, exc, raw_voltage, graphV >>
     ELSE LET mv     == res.words[1]
              sample == << now, SocCalc(mv) >>
              h      == DequeAppend(soc_history, sample)
              g      == print_soc_graph(h, now)
          IN
            /\ battery_voltage' = Some(mv)
            /\ raw_voltage' = Some(mv)
            /\ unbound' = unbound \ { "battery_voltage", "soc" }
            /\ IF battery_capacity = None
               THEN \* f"{battery_capacity:.2f}" on None: TypeError
                    /\ soc' = << SocCalc(mv), 1 >>
                    /\ Raise("TypeError")
                    /\ UNCHANGED << histV, secondV, trace, graphV >>
               ELSE /\ soc_history' = g.history
                    /\ inserted' = Append(inserted, << now, SocCalc(mv), mv >>)
                    /\ graph_used' = Some(g.used)
                    /\ graph_kept' = (g.history = h)
                    /\ soc' = GraphLastAvg(g.used)
                    /\ trace' = Append(trace, "soc")
                    /\ pc' = "regs2"
                    /\ device_temp_c' = None /\ battery_temp_c' = None
                    /\ battery_current' = None /\ output_current' = None
                    /\ UNCHANGED exc
  /\ reg_i' = 1
  /\ UNCHANGED << procV, cycle, now, connV, mqV, flagV, register_values,
                  battery_temp_raw, battery_capacity, sinkV, logV, reads, errs,
                  io_raised, pub_outcome, csv_row >>

\* one turn of the second "for address, (...) in registers.items()"
P_Second(res) ==
  /\ variant = "PC" /\ pc = "regs2"
  /\ LET r == registers[reg_i] IN
       /\ battery_temp_c' =
            IF r.label = "Battery Temperature" /\ battery_temp_raw # None
                 /\ battery_temp_raw # Some(0)
            THEN Some((100 * battery_temp_raw[1]) \div r.scale - KelvinOffset)
            ELSE battery_temp_c
       /\ device_temp_c' =
            IF r.label = "Device Temperature" /\ res.ok
            THEN Some((100 * res.words[1]) \div r.scale - KelvinOffset)
            ELSE device_temp_c
       /\ battery_current' =
            IF r.label = "Battery Current" /\ res.ok
            THEN Some(res.words[1] \div r.scale) ELSE battery_current
       /\ output_current' =
            IF r.label = "Output Current" /\ res.ok
            THEN Some(res.words[1] \div r.scale) ELSE output_current
  /\ IF reg_i < NumRegs
     THEN reg_i' = reg_i + 1 /\ pc' = "regs2" /\ UNCHANGED trace
     ELSE reg_i' = 1 /\ pc' = "csv" /\ trace' = Append(trace, "regs2")
  /\ UNCHANGED << ctlV, cycle, now, connV, mqV, histV, flagV, register_values,
                  battery_temp_raw, battery_capacity, socV, sinkV, logV, cycV >>

\* the row of writer.writerow([...]) in the PC variant; None is the empty string
P_Row ==
  << now, battery_voltage, battery_temp_c, device_temp_c, battery_current,
     output_current, IF soc # None THEN Some(Round2(soc)) ELSE None >>

\* if time.time() - last_log_time > LOG_INTERVAL: last_log_time = time.time(),
\* then the row, whose battery_voltage and soc may never have been bound
P_Csv ==
  /\ variant = "PC" /\ pc = "csv"
  /\ IF now - last_log_time > LOG_INTERVAL
     THEN /\ last_log_time' = now
          /\ IF "battery_voltage" \in unbound
             THEN /\ Raise("NameError")
                  /\ trace' = Append(trace, "csv")
                  /\ UNCHANGED << csv_row, n_csv >>
             ELSE /\ csv_row' = P_Row
                  /\ n_csv' = n_csv + 1
                  /\ trace' = trace \o << "csv", "row" >>
                  /\ pc' = "close"
                  /\ UNCHANGED exc
     ELSE /\ trace' = Append(trace, "csv")
          /\ pc' = "close"
          /\ UNCHANGED << last_log_time, csv_row, n_csv, exc >>
  /\ UNCHANGED << ctlV, cycle, now, connV, mqV, histV, flagV, loopV, socV, secondV,
                  mqtt_published, logV, reads, errs, io_raised,
                  raw_voltage, pub_outcome,
                  graphV >>

\* client.close(), the last statement of the try body
P_Close ==
  /\ variant = "PC" /\ pc = "close"
  /\ client_open' = FALSE
  /\ trace' = Append(trace, "close")
  /\ pc' = "health"
  /\ UNCHANGED << ctlV, cycle, now, leaked, mqV, histV, flagV, loopV, socV, secondV,
                  sinkV, logV, cycV >>

\* except Exception: log, then time.sleep(5 if battery_mode else 10), where
\* battery_mode may never have been bound: the NameError ends the script
P_Except ==
  /\ variant = "PC" /\ pc = "except"
  /\ trace' = Append(trace, "log_exception")
  /\ IF "battery_mode" \in unbound
     THEN /\ pc' = "terminated"
          /\ exit_status' = Some(1)
          /\ UNCHANGED << now, slept >>
     ELSE /\ now' = now + (IF battery_mode THEN FastSleep ELSE SlowSleep)
          /\ slept' = IF battery_mode THEN FastSleep ELSE SlowSleep
          /\ pc' = "health"
          /\ UNCHANGED exit_status
  /\ UNCHANGED << envV, idV, unbound, cycle, connV, mqV, histV, flagV, loopV, socV,
                  secondV, sinkV, n_conn_err, n_conn_fail, cycV >>

\* if not client.is_socket_open(): sleep(3); else "Connection healthy."
P_Health ==
  /\ variant = "PC" /\ pc = "health"
  /\ now' = now + (IF client_open THEN 0 ELSE PcHealthSleep)
  \* after an exception the handler has slept already
  /\ slept' = (IF exc = "none" THEN 0 ELSE slept)
                 + (IF client_open THEN 0 ELSE PcHealthSleep)
  /\ NoCycle
  /\ pc' = "loop"
  /\ UNCHANGED << ctlV, cycle, connV, mqV, histV, flagV, loopV, socV, secondV,
                  sinkV, n_conn_err, n_conn_fail >>

\* the results the second loop's turn for register r can get: a read only for
\* the three registers it reads again
SecondResults(r) ==
  IF r.label \in SecondReads THEN ReadResults(r) ELSE { Error }

P_Next ==
  \/ P_LoadConfig
  \/ \E gc \in Collected : P_ConnectFail(gc)
  \/ \E gc \in Collected : P_Connect(gc)
  \/ P_ReadRaises
  \/ \E res \in StatusResults : P_ReadStatus(res)
  \/ \E res \in ReadResults(registers[reg_i]) : P_ReadRegister(res)
  \/ \E res \in SocReadResults : P_Soc(res)
  \/ \E res \in SecondResults(registers[reg_i]) : P_Second(res)
  \/ P_Csv
  \/ P_Close
  \/ P_Except
  \/ P_Health

Next == M_Next \/ P_Next

Spec == Init /\ [][Next]_vars

\* the same loop with the weak fairness of a sequential program: it takes its
\* next step whenever it has one
FairSpec == Spec /\ WF_vars(Next)

(* -------- the steady environment: a long run without any failure ------ *)
HistInit ==
  /\ env \in { "grid", "battery" }
  /\ InitCommon
  /\ NoCall
  /\ config = "none"
  /\ id_file = None

HistNext ==
  \/ M_LoadConfig
  \/ P_LoadConfig
  \/ M_MqttConnect(TRUE)
  \/ M_Connect
  \/ M_ReadName
  \/ \E res \in StatusResults : M_ReadStatus(res)
  \/ \E res \in ReadResults(registers[reg_i]) : M_ReadRegister(res)
  \/ M_Soc
  \/ \E o \in PublishOutcomes : M_Publish(o)
  \/ M_Csv
  \/ M_Finally
  \/ M_Sleep
  \/ \E gc \in Collected : P_Connect(gc)
  \/ \E res \in StatusResults : P_ReadStatus(res)
  \/ \E res \in ReadResults(registers[reg_i]) : P_ReadRegister(res)
  \/ \E res \in SocReadResults : P_Soc(res)
  \/ \E res \in SecondResults(registers[reg_i]) : P_Second(res)
  \/ P_Csv
  \/ P_Close
  \/ P_Health

HistSpec == HistInit /\ [][HistNext]_vars

(* ------------- a shutdown request: Ctrl-C (SIGINT) during the loop ---- *)
\* Neither script installs a signal handler or catches KeyboardInterrupt, which
\* is not an Exception: "except Exception" lets it pass.
StopInit ==
  /\ env = "stop"
  /\ InitCommon
  /\ NoCall
  /\ config = "none"
  /\ id_file = None

\* positions of main()'s try statement before its finally clause
M_InTry == { "name", "status", "regs", "soc", "publish", "csv", "except" }

\* KeyboardInterrupt in the MQTT variant: inside the try statement the finally
\* clause closes the Modbus client; then, as anywhere else in the loop, the
\* exception leaves main() and the process ends. Nothing stops the MQTT client.
M_Interrupt ==
  /\ variant = "MQTT" /\ env = "stop"
  /\ pc \in M_InTry \cup { "loop", "finally", "sleep" }
  /\ IF pc \in M_InTry
     THEN client_open' = FALSE /\ trace' = trace \o << "interrupt", "close" >>
     ELSE trace' = Append(trace, "interrupt") /\ UNCHANGED client_open
  /\ pc' = "interrupted"
  /\ exit_status' = Some(130)
  /\ UNCHANGED << envV, idV, unbound, cycle, now, leaked, mqV, histV, flagV, loopV,
                  socV, secondV, sinkV, logV, cycV >>

\* KeyboardInterrupt in the PC variant: it passes the except clause of the loop
\* body and ends the script; the client is left as it is
P_Interrupt ==
  /\ variant = "PC" /\ env = "stop"
  /\ pc \in { "loop", "status", "regs", "soc", "regs2", "csv", "close", "health" }
  /\ trace' = Append(trace, "interrupt")
  /\ pc' = "interrupted"
  /\ exit_status' = Some(130)
  /\ UNCHANGED << envV, idV, unbound, cycle, now, connV, mqV, histV, flagV, loopV,
                  socV, secondV, sinkV, logV, cycV >>

StopNext == HistNext \/ M_Interrupt \/ P_Interrupt

StopSpec == StopInit /\ [][StopNext]_vars

(* ---------- the decoder and the header function, called on their own --- *)
\* words a register may hold
DecWords == { 0, 1, 298, FFFF }
\* the word sequences of length n
WordSeqs(n) == [1..n -> DecWords]

\* lines an existing file may start with, and the data rows after them
StaleHeader == [text |-> "Time,Voltage", eol |-> TRUE]
FirstLines ==
  { Line(M_Header), Line(P_Header), [text |-> P_Header, eol |-> FALSE], StaleHeader }
DataRows ==
  { << >>, << Line("row1") >>, << Line("row1"), Line("row2") >>,
    << Line("row2"), Line("row1") >> }
Files ==
  { None, Some(<< >>) } \cup { Some(<< l >> \o rows) : l \in FirstLines, rows \in DataRows }

\* the main variables stay as the process finds them at its start
mainV == << pc, cycle, now, connV, mqV, histV, flagV, loopV, socV, secondV, sinkV,
            logV, cycV, trace, unbound, exit_status, idV, variant, env, config >>

FnInit ==
  /\ env = "grid"
  /\ InitCommon
  /\ config = "none"
  /\ id_file = None
  /\ d_out = None
  /\ h_out = None
  /\ \/ /\ d_reg \in 1..NumRegs
        /\ d_words \in WordSeqs(registers[d_reg].word_count)
        /\ h_file = None
     \/ /\ d_reg = 1
        /\ d_words = << >>
        /\ h_file \in Files

M_Format ==
  /\ variant = "MQTT" /\ d_words # << >> /\ d_out = None
  /\ d_out' = Some(format_register_value(registers[d_reg], d_words))
  /\ UNCHANGED << mainV, d_reg, d_words, h_file, h_out >>

P_DecodeRegister ==
  /\ variant = "PC" /\ d_words # << >> /\ d_out = None
  /\ d_out' = Some(P_Decode(registers[d_reg], d_words))
  /\ UNCHANGED << mainV, d_reg, d_words, h_file, h_out >>

M_EnsureHeader ==
  /\ variant = "MQTT" /\ d_words = << >> /\ h_out = None
  /\ h_out' = Some(M_ensure_csv_header(h_file))
  /\ UNCHANGED << mainV, d_reg, d_words, d_out, h_file >>

P_EnsureHeader ==
  /\ variant = "PC" /\ d_words = << >> /\ h_out = None
  /\ h_out' = Some(P_ensure_csv_header(h_file))
  /\ UNCHANGED << mainV, d_reg, d_words, d_out, h_file >>

FnNext == M_Format \/ P_DecodeRegister \/ M_EnsureHeader \/ P_EnsureHeader

FnSpec == FnInit /\ [][FnNext]_vars


(* ------------------------------ the claims ---------------------------- *)
Range(t) == { t[i] : i \in DOMAIN t }

\* the cycle is over: only its sleep (MQTT) or its health check (PC) is left
CycleDone == pc \in { "sleep", "health" }

\* the most recent cycle is one whose field-bus connect succeeded / failed
ConnectedCycle == trace # << >> /\ trace[1] = "connect"
FailedCycle    == trace # << >> /\ trace[1] = "connect_failed"

\* C1: whenever the loop is back at its top, the field-bus connection the
\* previous cycle opened is closed, whichever way that cycle ended.
C1_ClosedBeforeNextCycle == pc = "loop" => ~client_open

\* C2: the poll loop never terminates: no cycle outcome, an exception in the
\* very first cycle included, ends the script.
C2_LoopNeverTerminates == pc # "terminated"

\* C3: a cycle whose field-bus connect fails reads nothing, publishes nothing,
\* writes no CSV row and logs exactly one connection-failure entry, so the log
\* holds as many such entries as connects failed and, before the first
\* successful connect, there is no row, no sample and no publish; a cycle whose
\* connect succeeds and that raises nothing runs its read, publish and CSV steps.
C3_ConnectFailureSkipsCycle ==
  /\ n_conn_err = n_conn_fail
  /\ cycle = 0 => n_csv = 0 /\ soc_history = << >> /\ ~mqtt_published
  /\ FailedCycle =>
       /\ trace = << "connect_failed", "log_conn_err", "sleep" >>
       /\ pc = "loop"
       /\ reads = {} /\ pub_outcome = "none" /\ csv_row = << >>
  /\ ConnectedCycle /\ CycleDone /\ "log_exception" \notin Range(trace) =>
       /\ reads = Labels
       /\ { "regs", "csv" } \subseteq Range(trace)
       /\ variant = "MQTT" => "publish" \in Range(trace)

\* three failed connects, then a cycle that connects and appends the first row
C3_Witness ==
  /\ variant = "MQTT" /\ n_conn_fail = 3 /\ n_conn_err = 3 /\ cycle = 1
  /\ CycleDone /\ n_csv = 1
  /\ csv_row # << >> /\ csv_row[1] = StartTime + 3 * MqttConnFailSleep
  /\ pub_outcome = "ok"

\* C4: in the MQTT variant a cycle that reached its publish step appends the
\* CSV row whenever more than LOG_INTERVAL seconds have passed since the last
\* row, whatever the publish did (accepted, refused, raised) and whether or not
\* the broker was ever connected.
C4_BrokerNeverBlocksCsv ==
  variant = "MQTT" /\ pub_outcome # "none" /\ pc \in { "except", "finally", "sleep" } =>
    \/ csv_row # << >>
    \/ now - last_log_time <= LOG_INTERVAL

\* the broker was never connected, client.publish raised, the row was appended
C4_Witness ==
  /\ variant = "MQTT" /\ ~mqtt_started /\ pub_outcome = "raise"
  /\ pc = "sleep" /\ csv_row # << >> /\ csv_row[11] = FALSE

C6_RegisterFailureIsolated ==
  ConnectedCycle /\ ~io_raised =>
    /\ pc # "except"
    /\ CycleDone =>
         /\ reads = Labels
         /\ { "regs", "csv", "close" } \subseteq Range(trace)
         /\ { "soc", "soc_skipped" } \cap Range(trace) # {}

\* C7: the history holds no sample more than 600 seconds older than the sample
\* inserted last.
C7_AgeEvictionOnInsert ==
  \A i \in DOMAIN soc_history :
    soc_history[i][1] >= soc_history[Len(soc_history)][1] - GraphWindow

\* what the deque holds of an inserted sample: (time, soc), without the raw word
Sample(x) == << x[1], x[2] >>

\* C8: the history holds at most 600 samples, and they are the most recently
\* inserted ones, in insertion order.
C8_HistoryKeepsLast600 ==
  LET n == Len(inserted)
      k == Min(DequeMaxLen, n)
  IN  /\ Len(soc_history) = k
      /\ \A i \in 1..k : soc_history[i] = Sample(inserted[n - k + i])

\* 700 samples were inserted and the last 600 of them are kept
C8_Witness ==
  /\ Len(inserted) = 700 /\ Len(soc_history) = 600
  /\ soc_history[1] = Sample(inserted[101])
  /\ soc_history[600] = Sample(inserted[700])

\* C9: when the battery-voltage word is 0xFFFF no SOC is computed: soc is None,
\* no sample is appended to the history, and the row of the cycle carries an
\* empty SOC.
C9_SentinelGivesNoSoc ==
  /\ raw_voltage = Some(FFFF) => soc = None
  /\ \A i \in DOMAIN inserted : inserted[i][3] # FFFF

\* C10: for a battery-voltage word other than 0xFFFF the SOC is
\* 100 * (raw - 20400) / (27500 - 20400) clamped to [0, 100]: 0 up to 20400,
\* 100 from 27500 on, non-decreasing in raw; every sample of the history has
\* its percent within [0, 100].  (A sample's s is its percent times
\* 27500 - 20400, so that the quotient is exact.)
C10_SocLinearClamped ==
  /\ \A i \in DOMAIN soc_history :
       soc_history[i][2] >= 0 /\ soc_history[i][2] <= 100 * SocDen
  /\ inserted # << >> =>
       LET x == inserted[Len(inserted)] IN
         x[3] # FFFF =>
           /\ x[3] <= 20400 => x[2] = 0
           /\ x[3] >= 27500 => x[2] = 100 * SocDen
           /\ x[3] > 20400 /\ x[3] < 27500 => x[2] = 100 * (x[3] - 20400)
           /\ \A j \in DOMAIN inserted :
                /\ inserted[j][3] <= x[3] => inserted[j][2] <= x[2]
                /\ inserted[j][3] >= x[3] => inserted[j][2] >= x[2]

\* the steady device has reported each of its voltages once: clamped low
\* (15.0 V, 20.4 V), inside the range, clamped high (27.5 V, 30.0 V)
C10_Witness ==
  /\ Len(inserted) = Len(RawCycle)
  /\ \E i \in DOMAIN inserted : inserted[i][3] = 15000 /\ inserted[i][2] = 0
  /\ \E i \in DOMAIN inserted : inserted[i][3] = 20400 /\ inserted[i][2] = 0
  /\ \E i \in DOMAIN inserted : inserted[i][3] = 20401 /\ inserted[i][2] = 100
  /\ \E i \in DOMAIN inserted : inserted[i][3] = 27500 /\ inserted[i][2] = 100 * SocDen
  /\ \E i \in DOMAIN inserted : inserted[i][3] = 30000 /\ inserted[i][2] = 100 * SocDen


\* (hi << 16) + lo as a number, for hi below 2^15
Num(raw) == raw[1] * 65536 + raw[2]

\* C11: a word sequence made of 0xFFFF only decodes to Unavailable, whatever the
\* register's word count and unit.
C11_AllSentinelUnavailable ==
  d_out # None /\ AllFFFF(d_words) => d_out[1].kind = "unavailable"

\* C12: for a register that is not ASCII, of two or more words not all 0xFFFF,
\* the decoded raw is words[0] * 65536 + words[1] and the value is raw / scale
\* when the register has a scale, raw otherwise.
C12_TwoWordDecode ==
  d_out # None =>
    LET r == registers[d_reg]
        o == d_out[1]
    IN  r.unit # "ASCII" /\ r.word_count >= 2 /\ ~AllFFFF(d_words) =>
          /\ o.kind = "value"
          /\ o.raw[1] = d_words[1] /\ o.raw[2] = d_words[2]
          /\ d_words[1] < 32768 => Num(o.raw) = d_words[1] * 65536 + d_words[2]
          /\ o.den = IF r.scale # 0 THEN r.scale ELSE 1
          /\ ~o.celsius

\* words [0x0001, 0x0000] of a two-word register with scale 60: raw 65536,
\* value 1092.26...
C12_Witness ==
  /\ d_out # None
  /\ registers[d_reg].word_count = 2 /\ registers[d_reg].scale = 60
  /\ d_words = << 1, 0 >>
  /\ d_out[1].kind = "value" /\ Num(d_out[1].raw) = 65536
  /\ (100 * Num(d_out[1].raw)) \div d_out[1].den = 109226

\* C15: one ensure-header call creates an absent file with only the header,
\* replaces a first line that is not the header and keeps the rows after it
\* unchanged and in order, and leaves a file with the right header unchanged;
\* in every variant that writes the log.
C15_HeaderSelfHeal ==
  h_out # None =>
    LET H == IF variant = "MQTT" THEN M_Header ELSE P_Header IN
      /\ h_file = None => h_out[1] = Some(<< Line(H) >>)
      /\ h_file # None /\ h_file[1] # << >> =>
           IF Strip(Head(h_file[1])) # H
           THEN h_out[1] = Some(<< Line(H) >> \o Tail(h_file[1]))
           ELSE h_out[1] = h_file

\* C13: for every register and cycle the result handed to the sinks is a value,
\* Unavailable or Error; a failed read is never shown as a number and a sentinel
\* 0xFFFF is never shown as a number such as 65535.  Checked on the payload of
\* the MQTT variant: a field whose register failed or answered the sentinel is null.
RegisterFailed(l) == register_values[l] = None
RegisterSentinel(l) == register_values[l] # None /\ AllFFFF(register_values[l])
C13_ThreeWayResult ==
  variant = "MQTT" /\ pub_outcome # "none" =>
    /\ RegisterFailed("Output Current") => M_Payload.output_current = None
    /\ RegisterSentinel("Output Current") => M_Payload.output_current = None
    /\ RegisterFailed("Battery Temperature") => M_Payload.battery_temperature = None
    /\ RegisterSentinel("Battery Temperature") => M_Payload.battery_temperature = None

\* C14: in every CSV row written, each numeric field is the empty string when its
\* register was unavailable in that cycle (sentinel 0xFFFF or failed read).
VoltageUnavailable == raw_voltage = None \/ raw_voltage = Some(FFFF)
C14_CsvEmptyWhenUnavailable ==
  csv_row # << >> =>
    /\ VoltageUnavailable => csv_row[2] = None /\ csv_row[7] = None
    /\ variant = "MQTT" =>
         /\ RegisterFailed("Output Current") \/ RegisterSentinel("Output Current")
              => csv_row[3] = None
         /\ RegisterFailed("Battery Temperature") \/ RegisterSentinel("Battery Temperature")
              => csv_row[4] = None
         /\ RegisterFailed("Device Temperature") \/ RegisterSentinel("Device Temperature")
              => csv_row[5] = None
         /\ RegisterFailed("Battery Current") \/ RegisterSentinel("Battery Current")
              => csv_row[6] = None

\* C16: a cycle that reaches the CSV step appends a row if and only if at least
\* LOG_INTERVAL seconds have passed since the last write, a gap of exactly
\* LOG_INTERVAL included.  Checked as: a cycle that went through the CSV step
\* without writing a row had less than LOG_INTERVAL seconds since the last write,
\* and no cycle writes two rows.
RowsInCycle == Cardinality({ i \in DOMAIN trace : trace[i] = "row" })
C16_CsvThrottle ==
  /\ RowsInCycle <= 1
  /\ "csv" \in Range(trace) /\ RowsInCycle = 0 /\ exc = "none"
       => now - last_log_time < LOG_INTERVAL

\* C17: after every completed cycle the sleep before the next cycle is the short
\* duration when that cycle's battery_mode is true and the long one otherwise.
C17_AdaptiveSleep ==
  pc = "loop" /\ cycle >= 1 /\ trace = << >> =>
    slept = IF battery_mode THEN FastSleep ELSE SlowSleep

\* C18: in every cycle where the read of Status Functions fails, battery_mode,
\* battery_present and temp_sensor_connected are all false and the degraded
\* status is logged; flags of an earlier cycle are never reused.
C18_StatusFailureClearsFlags ==
  "status_unavailable" \in Range(trace) =>
    /\ ~battery_mode /\ ~battery_present /\ ~temp_sensor_connected
    /\ "log_status_unavailable" \in Range(trace)

\* C19: a missing configuration section or key is fatal at startup: the process
\* exits with a non-zero status before any Modbus or broker connection attempt and
\* before any cycle; it is never retried and never replaced by a default.
C19_ConfigErrorFatal ==
  config # "none" =>
    /\ pc \in { "config", "exited" }
    /\ pc = "exited" => exit_status # None /\ exit_status[1] # 0
    /\ cycle = 0 /\ mqtt_attempts = 0 /\ ~mqtt_started
    /\ n_conn_fail = 0 /\ n_conn_err = 0 /\ ~client_open /\ leaked = 0
    /\ trace = << >> /\ topics = {} /\ n_csv = 0

\* the MQTT script has stopped on a configuration without its [MQTT] section
C19_Witness ==
  variant = "MQTT" /\ config = "MQTT" /\ pc = "exited" /\ exit_status = Some(1)

\* C20: the identifier in the publish topic is generated at most once: once the
\* ID file exists every later cycle and run reads the same identifier, so all
\* publishes go to one topic; an identifier is generated only when no file exists.
C20_IdGeneratedOnce ==
  /\ n_id_gen <= 1
  /\ Cardinality(topics) <= 1
  /\ topics # {} => id_file # None /\ topics = { SafeId(StripId(id_file[1])) }
  /\ n_id_gen = 1 => id_file = Some(NewId(1))
  /\ id_file = Some(IdOnDisk) => n_id_gen = 0

\* the second cycle of a run that found an ID file has read it again
C20_Witness ==
  /\ variant = "MQTT" /\ cycle = 2 /\ "id" \in Range(trace)
  /\ id_file = Some(IdOnDisk) /\ n_id_gen = 0
  /\ topics = { SafeId(StripId(IdOnDisk)) }

\* the second cycle of a run that had to generate its identifier uses the stored one
C20_GeneratedReused ==
  /\ variant = "MQTT" /\ cycle = 2 /\ "id" \in Range(trace)
  /\ n_id_gen = 1 /\ topics = { NewId(1) } /\ n_csv = 2

\* the place of each step in the order of a cycle of the MQTT variant
StepRank ==
  [l \in { "connect", "name", "status", "status_unavailable", "regs", "soc",
           "publish", "csv", "close" } |->
     CASE l = "connect" -> 1
       [] l = "name" -> 2
       [] l \in { "status", "status_unavailable" } -> 3
       [] l = "regs" -> 4
       [] l = "soc" -> 5
       [] l = "publish" -> 6
       [] l = "csv" -> 7
       [] l = "close" -> 8]

\* the steps of the most recent cycle come in the fixed order, each at most once
StepsInOrder ==
  \A i, j \in DOMAIN trace :
    i < j /\ trace[i] \in DOMAIN StepRank /\ trace[j] \in DOMAIN StepRank
      => StepRank[trace[i]] < StepRank[trace[j]]

\* a register is read only on a connected client: after the connect, before the close
ReadsWhileConnected ==
  /\ reads # {} => ConnectedCycle
  /\ pc \in { "name", "status", "regs" } => client_open /\ "close" \notin Range(trace)

\* C21: within every cycle of the MQTT variant the steps come in the order
\* connect, status read, catalog reads, SOC and history insert, publish attempt,
\* CSV append, close; no read happens before the connect succeeds or after the
\* close, and the publish is attempted only when the broker is connected.
C21_CycleOrder ==
  variant = "MQTT" =>
    /\ StepsInOrder
    /\ ReadsWhileConnected
    /\ "publish" \in Range(trace) => mqtt_started

\* C22: drawing the trend does not change the history (contents and order), and
\* the samples drawn are exactly the history's samples whose timestamp lies
\* within the 600 seconds before the time of the drawing.
C22_GraphReadOnly ==
  graph_used # None =>
    /\ graph_kept
    /\ graph_used[1] = SelectSeq(soc_history, LAMBDA x : now - x[1] <= 600)

\* a graph drawn when the history holds samples older than the window: they are
\* left out, and the sample exactly 600 seconds old is the first one drawn
C22_Witness ==
  /\ graph_used # None /\ graph_used[1] # << >>
  /\ Len(graph_used[1]) < Len(soc_history)
  /\ graph_used[1][1][1] = now - 600
  /\ soc_history[1][1] < now - 600

\* C23: when a shutdown is requested the loop finishes the cycle in progress,
\* releases the field-bus and the broker connection and exits without starting
\* another cycle.
C23_GracefulShutdown ==
  pc = "interrupted" =>
    /\ ConnectedCycle => { "csv", "close" } \subseteq Range(trace)
    /\ ~client_open
    /\ ~mqtt_started

\* C24: every value written to a sink in a cycle comes from that cycle's reads:
\* when the battery-voltage read fails, the row carries no battery voltage and
\* no SOC of an earlier cycle, and the first cycle does not fail for lack of one.
C24_ValuesFromThisCycle ==
  /\ exc # "NameError"
  /\ csv_row # << >> /\ raw_voltage = None => csv_row[2] = None /\ csv_row[7] = None

\* the sample the most recent insert put into the history
LastInserted == inserted[Len(inserted)]

\* C25: the SOC written to the CSV row, and published, in a cycle is the SOC
\* sample computed from that cycle's battery-voltage read and inserted into the
\* history in that cycle; drawing the trend in between does not change it.
C25_RowSocIsSample ==
  raw_voltage # None /\ raw_voltage # Some(FFFF) /\ exc = "none" =>
    /\ inserted # << >> /\ LastInserted[1] = now /\ LastInserted[3] = raw_voltage[1]
    /\ csv_row # << >> => csv_row[7] = Some(Round2(<< LastInserted[2], 1 >>))
    /\ variant = "MQTT" /\ pub_outcome # "none" =>
         M_Payload.soc_percent = Some(Round2(<< LastInserted[2], 1 >>))

\* the header of the running variant
Columns == IF variant = "MQTT" THEN M_Columns ELSE P_Columns

\* the value, in this cycle, of the quantity a header column names
Quantity(col) ==
  CASE col = "Timestamp" -> now
    [] col = "Battery Voltage (V)" -> battery_voltage
    [] col = "SOC (%)" -> IF soc # None THEN Some(Round2(soc)) ELSE None
    [] col = "Output Current (mA)" ->
         IF variant = "PC" THEN output_current
         ELSE IF RegisterFailed("Output Current") THEN None
         ELSE Some(register_values["Output Current"][1])
    [] col = "Battery Current (mA)" ->
         IF variant = "PC" THEN battery_current
         ELSE IF RegisterFailed("Battery Current") THEN None
         ELSE Some(register_values["Battery Current"][1])
    [] col = "Battery Temp (C)" ->
         IF variant = "PC" THEN battery_temp_c
         ELSE IF RegisterFailed("Battery Temperature")
                   \/ RegisterSentinel("Battery Temperature") THEN None
         ELSE Some(100 * register_values["Battery Temperature"][1] - KelvinOffset)
    [] col = "Device Temp (C)" ->
         IF variant = "PC" THEN device_temp_c
         ELSE IF RegisterFailed("Device Temperature")
                   \/ RegisterSentinel("Device Temperature") THEN None
         ELSE Some(100 * register_values["Device Temperature"][1] - KelvinOffset)
    [] col = "Battery Mode" -> battery_mode
    [] col = "Battery Present" -> battery_present
    [] col = "Temp Sensor Connected" -> temp_sensor_connected
    [] col = "MQTT Published" -> mqtt_published

\* C26: every CSV data row has as many fields as the header has columns, and the
\* field at each position holds the quantity the header names at that position.
C26_RowMatchesHeader ==
  csv_row # << >> =>
    /\ Len(csv_row) = Len(Columns)
    /\ \A i \in 1..Len(Columns) : csv_row[i] = Quantity(Columns[i])

\* field-bus clients whose socket is open: the current one, and those a later
\* cycle replaced while they were open
OpenConnections == leaked + (IF client_open THEN 1 ELSE 0)

\* C27: at every moment at most one field-bus connection is open: a cycle opens
\* a new one only after the connection of every earlier cycle was closed,
\* cycles that ended in an exception included.
C27_AtMostOneConnection == OpenConnections <= 1

=============================================================================
